---- MODULE Spec2Model ----
(***************************************************************************)
(* Model of the notification fan-out of vinted_notifications:              *)
(*   src/rss_feed_plugin/rss_feed.py          (RSSFeed, the feed sink)     *)
(*   src/discord_webhook_plugin/discord_webhook.py (DiscordWebhook)        *)
(*                                                                         *)
(* Strings are sequences of tokens.  The tokens "NEW", "EURO" and "BAG"    *)
(* stand for the three marker glyphs, "LF" and "CR" for the line breaks,   *)
(* " " for a blank and "IMG" for an anchor fragment <a href="...">.        *)
(***************************************************************************)
EXTENDS Integers, Sequences, FiniteSets, TLC

\* ------------------------------------------------------------------ bounds
MaxEvents == 2      \* events the upstream producer puts on one sink's queue
MaxTime == 1        \* largest wall-clock reading

\* ------------------------------------------------------- program constants
DefaultMaxItems == 100
DefaultPort == 18473

Sinks == {"rss", "discord"}
Requests == {1, 2}              \* HTTP request threads of the feed server
Generators == {0} \cup Requests  \* feed generators: the one of __init__, one per request
Times == 0..MaxTime

\* ----------------------------------------------------------------- strings
Empty == <<>>
Placeholder == <<"Vinted", " ", "Item">>
ImageUrl == <<"http://img/x.jpg">>

Min(S) == CHOOSE x \in S : \A y \in S : x <= y
Max(S) == CHOOSE x \in S : \A y \in S : x >= y

IsWs(c) == c \in {" ", "LF", "CR"}

\* str.strip()
Strip(s) ==
    LET keep == {i \in 1..Len(s) : ~IsWs(s[i])}
    IN  IF keep = {} THEN Empty ELSE SubSeq(s, Min(keep), Max(keep))

\* first position >= p that holds no whitespace (Len(s)+1 when none): where a greedy \s* stops
SkipWs(s, p) ==
    Min({q \in p..(Len(s) + 1) : q = Len(s) + 1 \/ ~IsWs(s[q])})

\* last position of the line that position p is on
LineEnd(s, p) ==
    Min({e \in p..Len(s) : e = Len(s) \/ s[e + 1] = "LF"})

\* positions where the group (.+?) of  glyph\s*word\s*:\s*(.+?)(?:\n|$)  may start when the
\* pattern is tried at position i: \s* gives back whitespace until "." has a character to take
GroupStarts(s, i, glyph, word) ==
    IF i > Len(s) \/ s[i] # glyph THEN {}
    ELSE LET p1 == SkipWs(s, i + 1)
         IN  IF p1 > Len(s) \/ s[p1] # word THEN {}
             ELSE LET p2 == SkipWs(s, p1 + 1)
                  IN  IF p2 > Len(s) \/ s[p2] # ":" THEN {}
                      ELSE {q \in (p2 + 1)..SkipWs(s, p2 + 1) : q <= Len(s) /\ s[q] # "LF"}

\* re.search(r'<glyph>\s*<word>\s*:\s*(.+?)(?:\n|$)', content): the leftmost match and group(1)
MarkerSearch(s, glyph, word) ==
    LET hits == {i \in 1..Len(s) : GroupStarts(s, i, glyph, word) # {}}
    IN  IF hits = {} THEN [found |-> FALSE, group |-> Empty]
        ELSE LET b == Max(GroupStarts(s, Min(hits), glyph, word))
             IN  [found |-> TRUE, group |-> SubSeq(s, b, LineEnd(s, b))]

\* re.search(r'<a\s+href=["\']([^"\']+)["\']', content)
ImageSearch(s) ==
    IF \E i \in 1..Len(s) : s[i] = "IMG" THEN ImageUrl ELSE Empty

\* content.split('\n')
RECURSIVE SplitLF(_)
SplitLF(s) ==
    LET cuts == {i \in 1..Len(s) : s[i] = "LF"}
    IN  IF cuts = {} THEN <<s>>
        ELSE <<SubSeq(s, 1, Min(cuts) - 1)>> \o SplitLF(SubSeq(s, Min(cuts) + 1, Len(s)))

\* re.split(r'\r?\n', content): the CR right before a line break belongs to the break
DropBreakCR(line, last) ==
    IF ~last /\ Len(line) > 0 /\ line[Len(line)] = "CR"
    THEN SubSeq(line, 1, Len(line) - 1) ELSE line

SplitCRLF(s) ==
    LET raw == SplitLF(s)
    IN  [k \in 1..Len(raw) |-> DropBreakCR(raw[k], k = Len(raw))]

\* RSSFeed.parse_content
RssParseContent(content) ==
    LET title_match == MarkerSearch(content, "NEW", "Title")
        brand_match == MarkerSearch(content, "BAG", "Brand")
        price_match == MarkerSearch(content, "EURO", "Price")
        first_line == Strip(SplitLF(content)[1])
    IN  [title |-> IF title_match.found THEN Strip(title_match.group)
                   ELSE IF first_line # Empty /\ first_line[1] # "NEW" THEN first_line
                   ELSE Empty,
         brand |-> IF brand_match.found THEN Strip(brand_match.group) ELSE Empty,
         price |-> IF price_match.found THEN Strip(price_match.group) ELSE Empty,
         image |-> ImageSearch(content)]

\* DiscordWebhook.parse_content
DiscordParseContent(content) ==
    LET has_emoji_format == \E i \in 1..Len(content) : content[i] \in {"NEW", "EURO", "BAG"}
        title_match == MarkerSearch(content, "NEW", "Title")
        price_match == MarkerSearch(content, "EURO", "Price")
        brand_match == MarkerSearch(content, "BAG", "Brand")
        stripped == [k \in 1..Len(SplitCRLF(content)) |-> Strip(SplitCRLF(content)[k])]
        lines == SelectSeq(stripped, LAMBDA l : l # Empty /\ l[1] # "IMG")
    IN  IF has_emoji_format
        THEN [title |-> IF title_match.found THEN Strip(title_match.group) ELSE Empty,
              brand |-> IF brand_match.found THEN Strip(brand_match.group) ELSE Empty,
              price |-> IF price_match.found THEN Strip(price_match.group) ELSE Empty,
              image |-> ImageSearch(content)]
        ELSE [title |-> IF Len(lines) > 0 THEN lines[1] ELSE Empty,
              price |-> IF Len(lines) > 1 THEN lines[2] ELSE Empty,
              brand |-> IF Len(lines) > 2 THEN lines[3] ELSE Empty,
              image |-> ImageSearch(content)]

\* ------------------------------------------------------------------ inputs
TaggedContent ==
    <<"NEW", " ", "Title", " ", ":", " ", "Red", " ", "Jacket", "LF",
      "EURO", " ", "Price", " ", ":", " ", "8.0", " ", "GBP", "LF",
      "BAG", " ", "Brand", " ", ":", " ", "Nike", "LF", "IMG">>
PositionalContent ==
    <<"Red", " ", "Jacket", "CR", "LF", "8.0", " ", "GBP", "CR", "LF", "Nike", "CR", "LF", "IMG">>
UntitledContent ==
    <<"NEW", " ", "Jacket", "LF", "EURO", " ", "Price", " ", ":", " ", "8.0", " ", "GBP">>

ItemUrl == <<"items", "123">>
OtherUrl == <<"catalog">>
SlugUrl == <<"items", "123-red-jacket", "45">>
MemberUrl == <<"member", "45", "67", "items">>

RssContents == {TaggedContent, Empty}
RssUrls == {ItemUrl}
DiscordContents == {TaggedContent, PositionalContent, UntitledContent}
DiscordUrls == {SlugUrl, MemberUrl, OtherUrl}

Contents(s) == IF s = "rss" THEN RssContents ELSE DiscordContents

\* the parsers' results on the contents the producer sends, computed once
RssParsed == [c \in RssContents |-> RssParseContent(c)]
DiscordParsed == [c \in DiscordContents |-> DiscordParseContent(c)]
Urls(s) == IF s = "rss" THEN RssUrls ELSE DiscordUrls

\* what db.get_parameter returns for a numeric parameter: None, '', a text int() rejects
\* (ValueError), or the text of an integer
AbsentParam == [kind |-> "absent", val |-> 0]
NonNumericParams == {AbsentParam, [kind |-> "empty", val |-> 0], [kind |-> "text", val |-> 0]}

\* db.get_parameter("rss_max_items"): absent, not a number, or the text of an integer
MaxItemsParams ==
    {[kind |-> "absent", val |-> 0], [kind |-> "empty", val |-> 0], [kind |-> "text", val |-> 0]}
        \cup {[kind |-> "int", val |-> n] : n \in -1..1}

\* db.get_parameter("rss_port"): absent, not a number, a port, or a number that is no port
PortParams ==
    NonNumericParams \cup {[kind |-> "int", val |-> 8080], [kind |-> "int", val |-> 70000]}

\* ------------------------------------------------------------------- state
VARIABLES
    sink,           \* the sink this process runs: rss_feed_process or discord_webhook_process
    queue,          \* queue[s]: the sink's queue, a sequence of events
    produced,       \* produced[s]: number of events put on the queue so far
    pc,             \* pc[s]: where the consumer thread of sink s is
    cur,            \* cur[s]: the event the consumer holds (content, url, ...)
    dequeued,       \* dequeued[s]: ids of the events taken off the queue, in order
    passed,         \* passed[s]: ids of the events passed to the sink's handler, in order
    raised,         \* raised[s]: ids of the events whose handling raised
    max_items,      \* RSSFeed.max_items
    items,          \* RSSFeed.items, the feed store
    now,            \* the wall clock read by datetime.now
    evicted,        \* the last eviction: the store before it and the entry removed
    version,        \* number of changes made to the store so far
    fg,             \* RSSFeed.fg: which feed generator the attribute refers to
    fgEntries,      \* fgEntries[g]: the entries of feed generator g, first to last
    rpc,            \* rpc[r]: where request thread r is in serve_rss
    sorted_items,   \* sorted_items[r]: the entries serve_rss still has to add, in loop order
    fe,             \* fe[r]: the generator that holds the entry request r is filling in
    snap,           \* snap[r]: what request r saw of the store, and what the store was meanwhile
    response,       \* response[r]: what request r returned
    config,         \* the configuration store's discord_webhook_url
    self_webhook_url, \* DiscordWebhook.webhook_url, read once by __init__
    webhook_url,    \* the local webhook_url of send_notification
    read_config,    \* the last read of the store by send_notification: event id and value
    embed,          \* the embed send_notification built
    looked_up,      \* ids of the events whose listing was looked up
    attempts,       \* attempts[id]: number of POSTs made for event id
    last_post,      \* the last POST: event id, endpoint, embed, outcome
    db_item,        \* the local db_item of send_notification: what the lookup returned
    lookup,         \* the last get_item_from_database: the item id it found and how it ended
    rss_params,     \* the configuration store's rss_max_items and rss_port
    port,           \* the local port of RSSFeed.run (0 before run has read it)
    server,         \* the HTTP server of RSSFeed.run: starting, serving, or why it failed
    arg,            \* the argument of a call of parse_content or format_price_with_symbol
    result,         \* what the calls made with arg returned
    config_file,    \* update_config.py: the file update_config_from_file is given
    upd_pc,         \* where update_config_from_file is
    loaded,         \* its local config: what yaml.safe_load returned
    pending,        \* the items of config the update loop still has to write
    set_calls,      \* the db.set_parameter calls that changed the store, in order
    returned        \* what update_config_from_file returned

consumerVars == <<queue, produced, pc, cur, dequeued, passed, raised>>
feedVars == <<max_items, items, now, evicted, version>>
renderVars == <<fg, fgEntries, rpc, sorted_items, fe, snap, response>>
discordVars == <<config, self_webhook_url, webhook_url, read_config, embed, looked_up,
                 attempts, last_post, db_item, lookup>>
hostVars == <<rss_params, port, server>>
callVars == <<arg, result>>
updateVars == <<config_file, upd_pc, loaded, pending, set_calls, returned>>
vars == <<sink, consumerVars, feedVars, renderVars, discordVars, hostVars, callVars, updateVars>>

NoEvent == [id |-> 0, content |-> Empty, url |-> Empty]
NoEviction == [happened |-> FALSE, before |-> <<>>, entry |-> 0]
NoSnap == [stable |-> {}, taken |-> <<>>, version |-> 0, alone |-> TRUE]
NoResponse == [status |-> 0, entries |-> <<>>]
NoEmbed == [title |-> Empty, url |-> Empty, description |-> Empty, image |-> Empty]
NoPost == [id |-> 0, endpoint |-> "None", read |-> "None", embed |-> NoEmbed, outcome |-> "none"]
EventIds == 1..MaxEvents

\* db.get_parameter("discord_webhook_url"): absent, empty, or an endpoint
WebhookParams == {"None", "", "https://discord/hook"}

\* a constructor that takes whatever the conversion yields, without the default
InitMaxItemsNoDefault(param) == param.val

\* RSSFeed.__init__: int(max_items_param) if max_items_param else 100, 100 on ValueError
InitMaxItems(param) ==
    IF param.kind = "int" THEN param.val ELSE DefaultMaxItems

\* RSSFeed.run: int(port_param) if port_param else 18473, 18473 on ValueError
RunPort(param) ==
    IF param.kind = "int" THEN param.val ELSE DefaultPort

NoRecord == [found |-> FALSE, title |-> Empty, price |-> "0.0", currency |-> Empty,
             photo_url |-> Empty]
NoLookup == [item_id |-> "", ended |-> "none"]
NoParsed == [title |-> Empty, brand |-> Empty, price |-> Empty, image |-> Empty]
NoArg == [fn |-> "none"]
NoResult == [done |-> {}, rss |-> NoParsed, discord |-> NoParsed, price |-> Empty]

\* update_config.py is not running
NoFile == [state |-> "none", doc |-> <<>>]
NoUpdate ==
    /\ config_file = NoFile
    /\ upd_pc = "idle"
    /\ loaded = <<>>
    /\ pending = <<>>
    /\ set_calls = <<>>
    /\ returned = "none"

\* the sink object once __init__ has returned, for the rss_max_items the store holds
Constructed(max_items_param) ==
    /\ sink \in Sinks
    /\ queue = [s \in Sinks |-> <<>>]
    /\ produced = [s \in Sinks |-> 0]
    /\ pc = [s \in Sinks |-> "check"]
    /\ cur = [s \in Sinks |-> NoEvent]
    /\ dequeued = [s \in Sinks |-> <<>>]
    /\ passed = [s \in Sinks |-> <<>>]
    /\ raised = [s \in Sinks |-> {}]
    /\ max_items = IF sink = "rss" THEN InitMaxItems(max_items_param) ELSE DefaultMaxItems
    /\ items = <<>>
    /\ now \in IF sink = "rss" THEN Times ELSE {0}
    /\ evicted = NoEviction
    /\ version = 0
    /\ fg = 0
    /\ fgEntries = [g \in Generators |-> <<>>]
    /\ rpc = [r \in Requests |-> "idle"]
    /\ sorted_items = [r \in Requests |-> <<>>]
    /\ fe = [r \in Requests |-> 0]
    /\ snap = [r \in Requests |-> NoSnap]
    /\ response = [r \in Requests |-> NoResponse]
    /\ config \in IF sink = "discord" THEN WebhookParams ELSE {"None"}
    /\ self_webhook_url = config
    /\ webhook_url = "None"
    /\ read_config = [id |-> 0, value |-> "None"]
    /\ embed = NoEmbed
    /\ looked_up = {}
    /\ attempts = [i \in EventIds |-> 0]
    /\ last_post = NoPost
    /\ db_item = NoRecord
    /\ lookup = NoLookup

\* the sink process with its consumer thread started and, for the feed sink, its HTTP
\* server listening on the default port
Init ==
    /\ \E mp \in MaxItemsParams :
          /\ Constructed(mp)
          /\ rss_params = [max_items |-> IF sink = "rss" THEN mp ELSE AbsentParam,
                            port |-> AbsentParam]
    /\ port = RunPort(rss_params.port)
    /\ server = "serving"
    /\ arg = NoArg
    /\ result = NoResult
    /\ NoUpdate

\* ------------------------------------------------------- upstream producer
\* queue.put((content, url, text, buy_url, buy_text)) by the process that feeds the sink
Produce(s) ==
    /\ sink = s
    /\ produced[s] < MaxEvents
    /\ \E c \in Contents(s), u \in Urls(s) :
          queue' = [queue EXCEPT ![s] = Append(@, [id |-> produced[s] + 1, content |-> c, url |-> u])]
    /\ produced' = [produced EXCEPT ![s] = @ + 1]
    /\ UNCHANGED <<sink, updateVars, hostVars, callVars, pc, cur, dequeued, passed, raised, feedVars, renderVars, discordVars>>

\* ------------------------------------------------ consumer loop (both sinks)
\* the handler's first step once the event is unpacked
HandlerEntry(s) == IF s = "rss" THEN "add_item" ELSE "send"

\* check_rss_queue / check_discord_queue: if not self.queue.empty()
CheckQueue(s) ==
    /\ sink = s
    /\ pc[s] = "check"
    /\ pc' = [pc EXCEPT ![s] = IF queue[s] # <<>> THEN "get" ELSE "sleep"]
    /\ UNCHANGED <<sink, updateVars, hostVars, callVars, queue, produced, cur, dequeued, passed, raised, feedVars, renderVars, discordVars>>

\* a queue that hands out the newest element first
FrontNewest(q) == q[Len(q)]

\* the element queue.get() returns: the one that was put first
Front(q) == Head(q)

\* a get that leaves the element on the queue
AfterGetKeeps(q) == q

\* what queue.get() leaves on the queue
AfterGet(q) == Tail(q)

\* content, url, text, buy_url, buy_text = self.queue.get()
GetEvent(s) ==
    /\ sink = s
    /\ pc[s] = "get"
    /\ queue[s] # <<>>
    /\ cur' = [cur EXCEPT ![s] = Front(queue[s])]
    /\ queue' = [queue EXCEPT ![s] = AfterGet(@)]
    /\ dequeued' = [dequeued EXCEPT ![s] = Append(@, Front(queue[s]).id)]
    /\ pc' = [pc EXCEPT ![s] = HandlerEntry(s)]
    /\ UNCHANGED <<sink, updateVars, hostVars, callVars, produced, passed, raised, feedVars, renderVars, discordVars>>

\* a loop without the except clauses: the exception ends the thread
AfterRaiseStops == "stopped"

\* where the loop goes when the handler raised: except Exception in check_*_queue logs and
\* returns, and run_check_queue goes on to time.sleep(0.1)
AfterRaise == "sleep"

\* time.sleep(0.1), then the next iteration of while True
Sleep(s) ==
    /\ sink = s
    /\ pc[s] = "sleep"
    /\ pc' = [pc EXCEPT ![s] = "check"]
    /\ UNCHANGED <<sink, updateVars, hostVars, callVars, queue, produced, cur, dequeued, passed, raised, feedVars, renderVars, discordVars>>

\* ---------------------------------------------------------------- feed sink
\* the wall clock moves on
ClockAdvance ==
    /\ sink = "rss"
    /\ now < MaxTime
    /\ now' = now + 1
    /\ UNCHANGED <<sink, updateVars, hostVars, callVars, consumerVars, max_items, items, evicted, version, renderVars, discordVars>>

\* the wall clock is set back (datetime.now is not monotonic)
ClockStepBack ==
    /\ sink = "rss"
    /\ \E t \in Times : t < now /\ now' = t
    /\ UNCHANGED <<sink, updateVars, hostVars, callVars, consumerVars, max_items, items, evicted, version, renderVars, discordVars>>

\* a handler that stores the title as the parser returned it
EntryTitleAsParsed(parsed) == parsed.title

\* the title add_item_to_feed stores: if not title: title = "Vinted Item"
EntryTitle(parsed) == IF parsed.title = Empty THEN Placeholder ELSE parsed.title

\* if len(self.items) > self.max_items
OverLimit(store, limit) == Len(store) > limit

\* self.items.pop(0)
Pop0(store) == Tail(store)

\* the store as it is once the add_item_to_feed under way (if any) has completed
StoreAfterHandle ==
    IF pc["rss"] = "limit" /\ OverLimit(items, max_items) THEN Pop0(items) ELSE items

\* the store as it was before the add_item_to_feed under way (if any) started
StoreBeforeHandle ==
    IF pc["rss"] = "limit" THEN SubSeq(items, 1, Len(items) - 1) ELSE items

InProgress(r) == rpc[r] \notin {"idle", "done"}

EntryIds(entries) == {entries[k].id : k \in DOMAIN entries}

\* the store as add_item_to_feed leaves it when it has appended entry
StoreAfterAppend(entry) ==
    IF OverLimit(Append(items, entry), max_items) THEN Pop0(Append(items, entry))
    ELSE Append(items, entry)

\* the tuple (title, url, parsed, published_time) add_item_to_feed makes of an event
FeedEntry(event, published_time) ==
    [id |-> event.id, title |-> EntryTitle(RssParsed[event.content]), url |-> event.url,
     parsed |-> RssParsed[event.content], published_time |-> published_time]

\* add_item_to_feed up to self.items.append((title, url, parsed, published_time))
RssAddItem ==
    /\ sink = "rss"
    /\ pc["rss"] = "add_item"
    /\ items' = Append(items, FeedEntry(cur["rss"], now))
    /\ version' = version + 1
    /\ passed' = [passed EXCEPT !["rss"] = Append(@, cur["rss"].id)]
    /\ pc' = [pc EXCEPT !["rss"] = "limit"]
    /\ snap' = [r \in Requests |->
                  IF InProgress(r)
                  THEN [snap[r] EXCEPT !.stable =
                           @ \cup {EntryIds(StoreAfterAppend(FeedEntry(cur["rss"], now)))}]
                  ELSE snap[r]]
    /\ UNCHANGED <<sink, updateVars, hostVars, callVars, queue, produced, cur, dequeued, raised, max_items, now, evicted,
                   fg, fgEntries, rpc, sorted_items, fe, response, discordVars>>

\* add_item_to_feed raises before it appends; check_rss_queue catches and logs
RssAddItemRaise ==
    /\ sink = "rss"
    /\ pc["rss"] = "add_item"
    /\ passed' = [passed EXCEPT !["rss"] = Append(@, cur["rss"].id)]
    /\ raised' = [raised EXCEPT !["rss"] = @ \cup {cur["rss"].id}]
    /\ pc' = [pc EXCEPT !["rss"] = AfterRaise]
    /\ cur' = [cur EXCEPT !["rss"] = NoEvent]
    /\ UNCHANGED <<sink, updateVars, hostVars, callVars, queue, produced, dequeued, feedVars, renderVars, discordVars>>

\* the end of add_item_to_feed: if len(self.items) > self.max_items: self.items.pop(0)
RssLimit ==
    /\ sink = "rss"
    /\ pc["rss"] = "limit"
    /\ IF OverLimit(items, max_items)
       THEN /\ items' = Pop0(items)
            /\ evicted' = [happened |-> TRUE, before |-> items, entry |-> Head(items).id]
            /\ version' = version + 1
       ELSE UNCHANGED <<items, evicted, version>>
    /\ pc' = [pc EXCEPT !["rss"] = "sleep"]
    /\ cur' = [cur EXCEPT !["rss"] = NoEvent]
    /\ UNCHANGED <<sink, updateVars, hostVars, callVars, queue, produced, dequeued, passed, raised, max_items, now, renderVars, discordVars>>

\* sorted(self.items, key=lambda x: x[3], reverse=True): a stable sort, so entries with
\* equal published_time keep the order they have in the store
RECURSIVE SortedDescending(_)
SortedDescending(store) ==
    IF store = <<>> THEN <<>>
    ELSE LET rest == SortedDescending(SubSeq(store, 1, Len(store) - 1))
             last == store[Len(store)]
             ahead == {k \in 1..Len(rest) : rest[k].published_time >= last.published_time}
             cut == IF ahead = {} THEN 0 ELSE Max(ahead)
         IN  SubSeq(rest, 1, cut) \o <<last>> \o SubSeq(rest, cut + 1, Len(rest))

\* lst[:n] of Python, for any integer n
Slice(lst, n) ==
    IF n >= 0 THEN SubSeq(lst, 1, IF n < Len(lst) THEN n ELSE Len(lst))
    ELSE SubSeq(lst, 1, IF Len(lst) + n > 0 THEN Len(lst) + n ELSE 0)

\* serve_rss: self.fg = FeedGenerator() and the feed-level fields
ServeRebuild(r) ==
    /\ sink = "rss"
    /\ rpc[r] = "idle"
    /\ fg' = r
    /\ fgEntries' = [fgEntries EXCEPT ![r] = <<>>]
    /\ snap' = [q \in Requests |->
                  IF q = r
                  THEN [snap[q] EXCEPT !.alone = \A o \in Requests : ~InProgress(o),
                                       !.stable = {EntryIds(StoreBeforeHandle),
                                                   EntryIds(StoreAfterHandle)}]
                  ELSE IF InProgress(q) THEN [snap[q] EXCEPT !.alone = FALSE]
                  ELSE snap[q]]
    /\ rpc' = [rpc EXCEPT ![r] = "sort"]
    /\ UNCHANGED <<sink, updateVars, hostVars, callVars, consumerVars, feedVars, discordVars, sorted_items, fe, response>>

\* serve_rss: sorted_items = sorted(self.items, ...) and the slice [:self.max_items]
ServeSort(r) ==
    /\ sink = "rss"
    /\ rpc[r] = "sort"
    /\ sorted_items' = [sorted_items EXCEPT ![r] = Slice(SortedDescending(items), max_items)]
    /\ snap' = [snap EXCEPT ![r].taken = items, ![r].version = version]
    /\ rpc' = [rpc EXCEPT ![r] = "loop"]
    /\ UNCHANGED <<sink, updateVars, hostVars, callVars, consumerVars, feedVars, discordVars, fg, fgEntries, fe, response>>

\* FeedGenerator.add_entry() as serve_rss calls it: with feedgen's default order, which
\* puts the new entry in front of the entries the generator already has
AddEntry(entries, entry) == <<entry>> \o entries

\* serve_rss: fe = self.fg.add_entry(), on the generator self.fg refers to at this moment
ServeAddEntry(r) ==
    /\ sink = "rss"
    /\ rpc[r] = "loop"
    /\ sorted_items[r] # <<>>
    /\ fgEntries' = [fgEntries EXCEPT ![fg] =
                        AddEntry(@, [item |-> Head(sorted_items[r]), by |-> r, filled |-> FALSE])]
    /\ fe' = [fe EXCEPT ![r] = fg]
    /\ rpc' = [rpc EXCEPT ![r] = "fill"]
    /\ UNCHANGED <<sink, updateVars, hostVars, callVars, consumerVars, feedVars, discordVars, fg, sorted_items, snap, response>>

\* serve_rss: fe.id(url) ... fe.published(published_time), on the entry add_entry returned
ServeFillEntry(r) ==
    /\ sink = "rss"
    /\ rpc[r] = "fill"
    /\ fgEntries' = [fgEntries EXCEPT ![fe[r]] =
                        [k \in 1..Len(@) |->
                            IF @[k].by = r /\ @[k].item = Head(sorted_items[r]) /\ ~@[k].filled
                            THEN [@[k] EXCEPT !.filled = TRUE] ELSE @[k]]]
    /\ sorted_items' = [sorted_items EXCEPT ![r] = Tail(@)]
    /\ rpc' = [rpc EXCEPT ![r] = "loop"]
    /\ UNCHANGED <<sink, updateVars, hostVars, callVars, consumerVars, feedVars, discordVars, fg, fe, snap, response>>

\* serve_rss: Response(self.fg.rss_str(), ...); rss_str raises on an entry without title
\* and description, which the server answers with status 500
ServeRespond(r) ==
    /\ sink = "rss"
    /\ rpc[r] = "loop"
    /\ sorted_items[r] = <<>>
    /\ response' = [response EXCEPT ![r] =
                      IF \E k \in 1..Len(fgEntries[fg]) : ~fgEntries[fg][k].filled
                      THEN [status |-> 500, entries |-> <<>>]
                      ELSE [status |-> 200,
                            entries |-> [k \in 1..Len(fgEntries[fg]) |-> fgEntries[fg][k].item]]]
    /\ rpc' = [rpc EXCEPT ![r] = "done"]
    /\ UNCHANGED <<sink, updateVars, hostVars, callVars, consumerVars, feedVars, discordVars, fg, fgEntries, sorted_items, fe, snap>>

\* ------------------------------------------------------------- discord sink
CurrencyCodes == {"GBP", "EUR", "USD", "CAD", "AUD", "CHF", "PLN", "CZK", "SEK", "NOK", "DKK"}

\* currency_map of format_price_with_symbol
CurrencySymbol(code) ==
    CASE code = "GBP" -> "POUND" [] code = "EUR" -> "EUROSIGN" [] code = "USD" -> "$"
      [] code = "CAD" -> "C$" [] code = "AUD" -> "A$" [] code = "CHF" -> "CHF"
      [] code = "PLN" -> "zl" [] code = "CZK" -> "Kc" [] OTHER -> "kr"

\* str.upper() on one token
Upper(tok) ==
    CASE tok = "gbp" -> "GBP" [] tok = "eur" -> "EUR" [] tok = "Gbp" -> "GBP"
      [] tok = "usd" -> "USD" [] tok = "cad" -> "CAD" [] tok = "aud" -> "AUD"
      [] tok = "chf" -> "CHF" [] tok = "pln" -> "PLN" [] tok = "czk" -> "CZK"
      [] tok = "sek" -> "SEK" [] tok = "nok" -> "NOK" [] tok = "dkk" -> "DKK"
      [] OTHER -> tok

\* a formatter that compares the end of price_str with the codes as they are written
FormatPriceCaseSensitive(price_str) ==
    IF price_str = Empty THEN Empty
    ELSE IF price_str[Len(price_str)] \in CurrencyCodes
         THEN <<CurrencySymbol(price_str[Len(price_str)])>>
                  \o Strip(SubSeq(price_str, 1, Len(price_str) - 1))
         ELSE price_str

\* DiscordWebhook.format_price_with_symbol
FormatPriceWithSymbol(price_str) ==
    IF price_str = Empty THEN Empty
    ELSE IF Upper(price_str[Len(price_str)]) \in CurrencyCodes
         THEN <<CurrencySymbol(Upper(price_str[Len(price_str)]))>>
                  \o Strip(SubSeq(price_str, 1, Len(price_str) - 1))
         ELSE price_str

IsDigit(part) == part \in {"123", "45", "67"}

\* a lookup that only takes the last numeric part of the path
ItemIdLastNumeric(path_parts) ==
    LET numeric == {k \in 1..Len(path_parts) : IsDigit(path_parts[k])}
    IN  IF numeric = {} THEN "" ELSE path_parts[Max(numeric)]

\* get_item_from_database: the item id taken from the path of the url ("" when none)
ItemId(path_parts) ==
    LET at == {k \in 1..Len(path_parts) : path_parts[k] = "items"}
        after == IF at = {} \/ Min(at) + 1 > Len(path_parts) THEN ""
                 ELSE path_parts[Min(at) + 1]
        numeric == {k \in 1..Len(path_parts) : IsDigit(path_parts[k])}
    IN  IF after # "" THEN after
        ELSE IF numeric = {} THEN "" ELSE path_parts[Max(numeric)]

DbImageUrl == <<"http://img/db.jpg">>
\* rows of the items table: (title, price, currency, photo_url)
DbRecords ==
    [found : {TRUE}, title : {Empty, <<"Blue", " ", "Coat">>}, price : {"0.0", "8.0"},
     currency : {<<"GBP">>}, photo_url : {DbImageUrl}]

\* what get_item_from_database may return for a url: None without an item id
LookupResults(url) == IF ItemId(url) = "" THEN {NoRecord} ELSE DbRecords \cup {NoRecord}

\* how get_item_from_database ended when it returned row: with the row of the query, with
\* no row, without a query (no item id), or in its except clause (urlparse or the database
\* raised), which logs and returns None as well
LookupEnds(url, row) ==
    IF row.found THEN {"hit"}
    ELSE IF ItemId(url) = "" THEN {"no_id", "raised"}
    ELSE {"miss", "raised"}

\* an embed that takes the title as it comes
EmbedTitleAsGiven(title) == title

\* "title": title or "Vinted Item" of create_embed
EmbedTitle(title) == IF title = Empty THEN Placeholder ELSE title

\* DiscordWebhook.create_embed
CreateEmbed(title, brand, price, image_url, item_url) ==
    [title |-> EmbedTitle(title),
     url |-> item_url,
     description |-> IF price # Empty /\ brand # Empty THEN price \o <<"LF">> \o brand
                     ELSE price \o brand,
     image |-> image_url]

\* send_notification from the lookup to the embed, for what the lookup returned
BuildEmbed(row, content, url) ==
    LET parsed == DiscordParsed[content]
    IN  IF row.found
        THEN CreateEmbed(row.title, parsed.brand,
                         IF row.price # "0.0" /\ row.currency # Empty
                         THEN FormatPriceWithSymbol(<<row.price, " ">> \o row.currency)
                         ELSE Empty,
                         row.photo_url, url)
        ELSE CreateEmbed(IF parsed.title = Empty THEN Placeholder ELSE parsed.title,
                         parsed.brand, FormatPriceWithSymbol(parsed.price), parsed.image, url)

\* another process changes discord_webhook_url in the configuration store
SetParameter ==
    /\ sink = "discord"
    /\ \E v \in WebhookParams : v # config /\ config' = v
    /\ UNCHANGED <<sink, updateVars, hostVars, callVars, consumerVars, feedVars, renderVars, self_webhook_url, webhook_url,
                   read_config, embed, looked_up, attempts, last_post, db_item, lookup>>

\* a sink that keeps using the endpoint it read in __init__
ResolveEndpointAtConstruction(stored, at_construction) == at_construction

\* the endpoint send_notification works with: db.get_parameter("discord_webhook_url")
ResolveEndpoint(stored, at_construction) == stored

\* if not webhook_url: return
Unset(url) == url \in {"None", ""}

\* send_notification: webhook_url = db.get_parameter(...); if not webhook_url: return
DiscordSend ==
    /\ sink = "discord"
    /\ pc["discord"] = "send"
    /\ read_config' = [id |-> cur["discord"].id, value |-> config]
    /\ passed' = [passed EXCEPT !["discord"] = Append(@, cur["discord"].id)]
    /\ IF Unset(ResolveEndpoint(config, self_webhook_url))
       THEN /\ pc' = [pc EXCEPT !["discord"] = "sleep"]
            /\ cur' = [cur EXCEPT !["discord"] = NoEvent]
            /\ webhook_url' = "None"
       ELSE /\ pc' = [pc EXCEPT !["discord"] = "lookup"]
            /\ webhook_url' = ResolveEndpoint(config, self_webhook_url)
            /\ cur' = cur
    /\ UNCHANGED <<sink, updateVars, hostVars, callVars, queue, produced, dequeued, raised, feedVars, renderVars, config,
                   self_webhook_url, embed, looked_up, attempts, last_post, db_item, lookup>>

\* db.get_parameter raises (it is outside the try of send_notification);
\* check_discord_queue catches and logs
DiscordSendRaise ==
    /\ sink = "discord"
    /\ pc["discord"] = "send"
    /\ passed' = [passed EXCEPT !["discord"] = Append(@, cur["discord"].id)]
    /\ raised' = [raised EXCEPT !["discord"] = @ \cup {cur["discord"].id}]
    /\ pc' = [pc EXCEPT !["discord"] = AfterRaise]
    /\ cur' = [cur EXCEPT !["discord"] = NoEvent]
    /\ UNCHANGED <<sink, updateVars, hostVars, callVars, queue, produced, dequeued, feedVars, renderVars, discordVars>>

\* send_notification: db_item = self.get_item_from_database(url), then the embed
DiscordLookup ==
    /\ sink = "discord"
    /\ pc["discord"] = "lookup"
    /\ \E found \in LookupResults(cur["discord"].url) :
          /\ db_item' = found
          /\ embed' = BuildEmbed(found, cur["discord"].content, cur["discord"].url)
          /\ \E how \in LookupEnds(cur["discord"].url, found) :
                lookup' = [item_id |-> ItemId(cur["discord"].url), ended |-> how]
    /\ looked_up' = looked_up \cup {cur["discord"].id}
    /\ pc' = [pc EXCEPT !["discord"] = "post"]
    /\ UNCHANGED <<sink, updateVars, hostVars, callVars, queue, produced, cur, dequeued, passed, raised, feedVars, renderVars,
                   config, self_webhook_url, webhook_url, read_config, attempts, last_post>>

PostOutcomes == {"ok", "network_error", "http_error"}

\* a sink that posts again when the POST failed
AfterPostRetries(outcome) == IF outcome = "ok" THEN "sleep" ELSE "post"

\* where send_notification goes after requests.post and raise_for_status: a
\* RequestException is logged by the except clause and the method returns
AfterPost(outcome) == "sleep"

\* send_notification: requests.post(webhook_url, json=payload, timeout=10),
\* response.raise_for_status() and the except clauses
DiscordPost ==
    /\ sink = "discord"
    /\ pc["discord"] = "post"
    /\ \E outcome \in PostOutcomes :
          /\ last_post' = [id |-> cur["discord"].id, endpoint |-> webhook_url,
                           read |-> read_config.value, embed |-> embed, outcome |-> outcome]
          /\ pc' = [pc EXCEPT !["discord"] = AfterPost(outcome)]
          /\ IF AfterPost(outcome) = "sleep"
             THEN /\ cur' = [cur EXCEPT !["discord"] = NoEvent]
                  /\ embed' = NoEmbed
                  /\ webhook_url' = "None"
                  /\ db_item' = NoRecord
                  /\ lookup' = NoLookup
             ELSE UNCHANGED <<cur, embed, webhook_url, db_item, lookup>>
    /\ attempts' = [attempts EXCEPT ![cur["discord"].id] = @ + 1]
    /\ UNCHANGED <<sink, updateVars, hostVars, callVars, queue, produced, dequeued, passed, raised, feedVars, renderVars,
                   config, self_webhook_url, read_config, looked_up>>

\* ------------------------------------------ calls of the parsers and of the formatter
LineTexts == {<<"Red", " ", "Jacket">>, <<"8.0", " ", "GBP">>, <<"Nike">>}
LineBreaks == {<<"LF">>, <<"CR", "LF">>, <<"LF", "LF">>, <<"CR", "LF", "CR", "LF">>}
Pads == {Empty, <<" ">>}

\* what may follow the last line: nothing, a line break, or a line break and the image line
Tails(brk) == {Empty, brk, brk \o <<"IMG">>}

\* the line-based format  {title}\r\n{price}\r\n{brand}\r\n<a href="{image}">
PositionalText(lines, pad, brk, tail) ==
    lines[1] \o pad \o brk \o lines[2] \o pad \o brk \o lines[3] \o pad \o tail

PositionalArgs ==
    UNION {{[fn |-> "parse", format |-> "positional", title |-> l[1], price |-> l[2],
             brand |-> l[3], first |-> l[1], text |-> PositionalText(l, p, b, t)]
            : l \in [1..3 -> LineTexts], p \in Pads, t \in Tails(b)} : b \in LineBreaks}

\* a line of the emoji format:  <glyph> <word> : <value>
MarkerLine(glyph, word, sp, value) ==
    <<glyph>> \o sp \o <<word>> \o sp \o <<":">> \o sp \o value

Orders == {o \in [1..3 -> 1..3] : \A j, k \in 1..3 : o[j] = o[k] => j = k}

\* the three marker lines in the order o, with the values title, price and brand
TaggedText(title, price, brand, sp, o, brk, tail) ==
    LET ls == <<MarkerLine("NEW", "Title", sp, title), MarkerLine("EURO", "Price", sp, price),
                MarkerLine("BAG", "Brand", sp, brand)>>
    IN  ls[o[1]] \o brk \o ls[o[2]] \o brk \o ls[o[3]] \o tail

TaggedArgs ==
    UNION {{[fn |-> "parse", format |-> "tagged", title |-> t, price |-> p, brand |-> b,
             first |-> Empty, text |-> TaggedText(t, p, b, sp, o, brk, tail)]
            : t \in {<<"Red", " ", "Jacket">>, Empty}, p \in {<<"8.0", " ", "GBP">>, Empty},
              b \in {<<"Nike">>, Empty}, sp \in Pads, o \in Orders, tail \in Tails(brk)}
           : brk \in {<<"LF">>, <<"CR", "LF">>}}

\* contents without a Title marker line: a first line and what follows it
FirstLines ==
    {<<"Red", " ", "Jacket">>, <<"NEW", " ", "Jacket">>, <<"IMG">>, Empty,
     MarkerLine("EURO", "Price", <<" ">>, <<"8.0", " ", "GBP">>),
     MarkerLine("BAG", "Brand", <<" ">>, <<"Nike">>)}
Rests ==
    {Empty, <<"LF", "Nike">>, <<"LF">> \o MarkerLine("BAG", "Brand", <<" ">>, <<"Nike">>),
     <<"CR", "LF">> \o MarkerLine("EURO", "Price", Empty, <<"8.0", " ", "GBP">>)}

UntitledArgs ==
    {[fn |-> "parse", format |-> "untitled", title |-> Empty, price |-> Empty, brand |-> Empty,
      first |-> f, text |-> f \o r] : f \in FirstLines, r \in Rests}

\* arguments of format_price_with_symbol: a number part, then a code or another word
LowerCodes == {"gbp", "eur", "usd", "cad", "aud", "chf", "pln", "czk", "sek", "nok", "dkk"}
PriceEnds == CurrencyCodes \cup LowerCodes \cup {"Gbp", "XYZ", "each"}
PriceArgs ==
    {[fn |-> "price", format |-> "price", title |-> Empty, price |-> n, brand |-> <<e>>,
      first |-> Empty, text |-> n \o <<e>> \o t]
       : n \in {Empty, <<"8.0">>, <<"8.0", " ">>, <<" ", "8.0", " ">>},
         e \in PriceEnds, t \in Pads}
       \cup {[fn |-> "price", format |-> "price", title |-> Empty, price |-> n, brand |-> Empty,
              first |-> Empty, text |-> n] : n \in {Empty, <<"8.0">>, <<"8.0", " ">>}}

CallArgs == PositionalArgs \cup TaggedArgs \cup UntitledArgs \cup PriceArgs

\* RSSFeed.parse_content(content)
CallRssParse ==
    /\ arg.fn = "parse"
    /\ "rss" \notin result.done
    /\ result' = [result EXCEPT !.done = @ \cup {"rss"}, !.rss = RssParseContent(arg.text)]
    /\ UNCHANGED <<sink, updateVars, consumerVars, feedVars, renderVars, discordVars, hostVars, arg>>

\* DiscordWebhook.parse_content(content)
CallDiscordParse ==
    /\ arg.fn = "parse"
    /\ "discord" \notin result.done
    /\ result' = [result EXCEPT !.done = @ \cup {"discord"},
                                !.discord = DiscordParseContent(arg.text)]
    /\ UNCHANGED <<sink, updateVars, consumerVars, feedVars, renderVars, discordVars, hostVars, arg>>

\* DiscordWebhook.format_price_with_symbol(price_str)
CallFormatPrice ==
    /\ arg.fn = "price"
    /\ "price" \notin result.done
    /\ result' = [result EXCEPT !.done = @ \cup {"price"},
                                !.price = FormatPriceWithSymbol(arg.text)]
    /\ UNCHANGED <<sink, updateVars, consumerVars, feedVars, renderVars, discordVars, hostVars, arg>>


\* ------------------------------------------------------- the feed sink's server
\* app.run(host="0.0.0.0", port=port): the server listens, or the bind fails (the port is
\* taken), or the number is no port at all (bind raises OverflowError)
StartOutcomes(p) ==
    IF p >= 0 /\ p < 65536 THEN {"serving", "bind_failed"} ELSE {"port_rejected"}

\* RSSFeed.run up to app.run: the port is read and the server started
RunStart ==
    /\ sink = "rss"
    /\ server = "starting"
    /\ port' = RunPort(rss_params.port)
    /\ server' \in StartOutcomes(RunPort(rss_params.port))
    /\ UNCHANGED <<sink, updateVars, consumerVars, feedVars, renderVars, discordVars, rss_params, callVars>>

\* the start failed: run logs the error and returns, rss_feed_process returns after it and
\* the process ends, and with it the consumer thread, which is a daemon thread
RunReturn ==
    /\ sink = "rss"
    /\ server \in {"bind_failed", "port_rejected"}
    /\ pc["rss"] # "exited"
    /\ pc' = [pc EXCEPT !["rss"] = "exited"]
    /\ UNCHANGED <<sink, updateVars, queue, produced, cur, dequeued, passed, raised, feedVars, renderVars,
                   discordVars, hostVars, callVars>>

\* ------------------------------------------------------------ update_config.py
\* values yaml.safe_load can produce: the Python type and the text str() gives;
\* for a list or a dict the text is what json.dumps gives
YamlValues ==
    { [type |-> "bool", text |-> "True"],
      [type |-> "int", text |-> "8080"],
      [type |-> "float", text |-> "1.5"],
      [type |-> "NoneType", text |-> ""],
      [type |-> "list", text |-> "[1]"],
      [type |-> "dict", text |-> "{}"],
      [type |-> "str", text |-> "8080"],
      [type |-> "str", text |-> "abc"],
      [type |-> "str", text |-> "[1]"],
      [type |-> "str", text |-> "1.5"] }

\* the texts int() converts and the texts json.loads parses, among those of YamlValues
IntTexts == {"8080"}
JsonTexts == {"8080", "1.5", "[1]", "{}"}

\* the keys of the configuration documents: one boolean, one numeric, one JSON, one free,
\* one proxy key, and one the validator does not know
ConfigKeys == {"rss_enabled", "rss_port", "user_agents", "telegram_token", "proxy_list", "colour"}
ConfigItems == [key : ConfigKeys, value : YamlValues]
ConfigDicts ==
    {<<>>} \cup {<<i>> : i \in ConfigItems}
           \cup {<<p[1], p[2]>> : p \in {q \in ConfigItems \X ConfigItems : q[1].key # q[2].key}}

\* what yaml.safe_load returns: None for an empty file, a mapping, or a document that
\* is no mapping (a non-empty list)
YamlDocs ==
    {[type |-> "NoneType", items |-> <<>>], [type |-> "list", items |-> <<>>]}
        \cup {[type |-> "dict", items |-> d] : d \in ConfigDicts}

\* the file update_config_from_file is given
ConfigFiles ==
    {[state |-> st, doc |-> <<>>] : st \in {"missing", "unreadable", "unparseable"}}
        \cup {[state |-> "parsed", doc |-> d] : d \in YamlDocs}

valid_keys ==
    { "telegram_enabled", "telegram_token", "telegram_chat_id",
      "rss_enabled", "rss_port", "rss_max_items",
      "discord_enabled", "discord_webhook_url",
      "items_per_query", "query_refresh_delay", "query_delay", "banwords",
      "check_proxies", "proxy_list", "proxy_list_link",
      "message_template", "user_agents", "default_headers" }
boolean_keys == {"telegram_enabled", "rss_enabled", "discord_enabled", "check_proxies"}
numeric_keys == {"rss_port", "rss_max_items", "items_per_query", "query_refresh_delay", "query_delay"}
json_keys == {"user_agents", "default_headers"}
proxy_keys == {"check_proxies", "proxy_list", "proxy_list_link"}

KeysOf(cfg) == {cfg[k].key : k \in DOMAIN cfg}

\* isinstance(value, (int, float)): bool is a subclass of int
IsIntOrFloat(value) == value.type \in {"bool", "int", "float"}

\* int(value) returns: ValueError for a text that is no integer, TypeError for None, a
\* list or a dict
IntConverts(value) ==
    IF value.type = "str" THEN value.text \in IntTexts ELSE IsIntOrFloat(value)

NumericOk(value) == IsIntOrFloat(value) \/ IntConverts(value)

JsonOk(value) ==
    IF value.type = "str" THEN value.text \in JsonTexts ELSE value.type \in {"list", "dict"}

\* validate_config without the check for invalid keys
validate_config_any_key(cfg) ==
    /\ \A k \in DOMAIN cfg : cfg[k].key \in boolean_keys => cfg[k].value.type = "bool"
    /\ \A k \in DOMAIN cfg : cfg[k].key \in numeric_keys => NumericOk(cfg[k].value)
    /\ \A k \in DOMAIN cfg : cfg[k].key \in json_keys => JsonOk(cfg[k].value)

\* validate_config(config)[0] for a mapping
validate_config(cfg) ==
    /\ KeysOf(cfg) \ valid_keys = {}
    /\ \A k \in DOMAIN cfg : cfg[k].key \in boolean_keys => cfg[k].value.type = "bool"
    /\ \A k \in DOMAIN cfg : cfg[k].key \in numeric_keys => NumericOk(cfg[k].value)
    /\ \A k \in DOMAIN cfg : cfg[k].key \in json_keys => JsonOk(cfg[k].value)

convert_value(value) ==
    IF value.type = "bool" THEN value.text
    ELSE IF value.type \in {"list", "dict"} THEN value.text
    ELSE IF value.type = "NoneType" THEN ""
    ELSE value.text

\* bool(config): None and an empty mapping are false
Truthy(doc) ==
    CASE doc.type = "NoneType" -> FALSE
      [] doc.type = "dict" -> doc.items # <<>>
      [] OTHER -> TRUE

\* update_config_from_file up to the end of yaml.safe_load
UpdOpen ==
    /\ upd_pc = "start"
    /\ IF config_file.state = "parsed"
       THEN /\ loaded' = config_file.doc
            /\ upd_pc' = "loaded"
            /\ returned' = returned
       ELSE /\ loaded' = loaded
            /\ upd_pc' = "done"
            /\ returned' = "False"
    /\ UNCHANGED <<sink, consumerVars, feedVars, renderVars, discordVars, hostVars, callVars,
                   config_file, pending, set_calls>>

\* the checks between the load and the update loop; validate_config raises on a
\* document that has no keys(), which the outer handler turns into False
UpdValidate ==
    /\ upd_pc = "loaded"
    /\ IF Truthy(loaded) /\ loaded.type = "dict" /\ validate_config(loaded.items)
       THEN /\ pending' = loaded.items
            /\ upd_pc' = "update"
            /\ returned' = returned
       ELSE /\ pending' = pending
            /\ upd_pc' = "done"
            /\ returned' = "False"
    /\ UNCHANGED <<sink, consumerVars, feedVars, renderVars, discordVars, hostVars, callVars,
                   config_file, loaded, set_calls>>

\* one turn of the update loop: db.set_parameter stores the value, or raises and the
\* key is skipped
UpdSetParameter ==
    /\ upd_pc = "update"
    /\ pending # <<>>
    /\ \E stored \in BOOLEAN :
        set_calls' =
            IF stored
            THEN Append(set_calls, [key |-> Head(pending).key,
                                    value |-> convert_value(Head(pending).value)])
            ELSE set_calls
    /\ pending' = Tail(pending)
    /\ UNCHANGED <<sink, consumerVars, feedVars, renderVars, discordVars, hostVars, callVars,
                   config_file, upd_pc, loaded, returned>>

\* after the loop: the proxy cache reset and the return; a set_parameter that raises
\* here reaches the outer handler
UpdFinish ==
    /\ upd_pc = "update"
    /\ pending = <<>>
    /\ IF KeysOf(loaded.items) \cap proxy_keys # {}
       THEN \E stored \in BOOLEAN :
                IF stored
                THEN /\ set_calls' = Append(set_calls, [key |-> "last_proxy_check_time",
                                                        value |-> "1"])
                     /\ returned' = "True"
                ELSE /\ set_calls' = set_calls
                     /\ returned' = "False"
       ELSE /\ set_calls' = set_calls
            /\ returned' = "True"
    /\ upd_pc' = "done"
    /\ UNCHANGED <<sink, consumerVars, feedVars, renderVars, discordVars, hostVars, callVars,
                   config_file, loaded, pending>>

\* ---------------------------------------------------------- specifications
ConsumerNext(s) == Produce(s) \/ CheckQueue(s) \/ GetEvent(s) \/ Sleep(s)
FeedNext == ClockAdvance \/ ClockStepBack \/ RssAddItem \/ RssAddItemRaise \/ RssLimit
DiscordNext == SetParameter \/ DiscordSend \/ DiscordSendRaise \/ DiscordLookup \/ DiscordPost
ServeNext ==
    \E r \in Requests : ServeRebuild(r) \/ ServeSort(r) \/ ServeAddEntry(r)
                            \/ ServeFillEntry(r) \/ ServeRespond(r)

\* one sink process: its queue, its consumer thread and its handler
Next == (\E s \in Sinks : ConsumerNext(s)) \/ FeedNext \/ DiscordNext
Spec == Init /\ [][Next]_vars

\* the consumer thread of sink s takes a step
ConsumerStep(s) ==
    \/ CheckQueue(s) \/ GetEvent(s) \/ Sleep(s)
    \/ (s = "rss" /\ (RssAddItem \/ RssLimit))
    \/ (s = "discord" /\ (DiscordSend \/ DiscordLookup \/ DiscordPost))

\* the same, with the consumer thread scheduled as long as it can take a step
LiveSpec == Spec /\ \A s \in Sinks : WF_vars(ConsumerStep(s))

\* the feed process with the request threads of its HTTP server, constructed with a
\* limit that is a count (the behaviours with a negative limit are those of Spec)
ServeInit ==
    Init /\ sink = "rss" /\ max_items >= 0 /\ rss_params.max_items.kind \in {"absent", "int"}
ServeSpec == ServeInit /\ [][ConsumerNext("rss") \/ FeedNext \/ ServeNext]_vars

\* the sink process from the moment __init__ has returned: the consumer thread runs and,
\* in the feed process, run() is about to start the server
HostInit ==
    /\ \E mp \in MaxItemsParams, pp \in PortParams :
          /\ Constructed(mp)
          /\ rss_params = IF sink = "rss" THEN [max_items |-> mp, port |-> pp]
                          ELSE [max_items |-> AbsentParam, port |-> AbsentParam]
    /\ now = 0
    /\ port = 0
    /\ server = IF sink = "rss" THEN "starting" ELSE "none"
    /\ arg = NoArg
    /\ result = NoResult
    /\ NoUpdate
HostNext == RunStart \/ RunReturn
HostSpec == HostInit /\ [][Next \/ HostNext]_vars

\* the two parsers and the formatter called on one argument
CallInit ==
    /\ Constructed(AbsentParam)
    /\ sink = "discord"
    /\ config = "None"
    /\ rss_params = [max_items |-> AbsentParam, port |-> AbsentParam]
    /\ port = RunPort(rss_params.port)
    /\ server = "serving"
    /\ arg \in CallArgs
    /\ result = NoResult
    /\ NoUpdate
CallNext == CallRssParse \/ CallDiscordParse \/ CallFormatPrice
CallSpec == CallInit /\ [][CallNext]_vars

\* update_config_from_file called on one file
ConfigInit ==
    /\ Constructed(AbsentParam)
    /\ sink = "discord"
    /\ config = "None"
    /\ rss_params = [max_items |-> AbsentParam, port |-> AbsentParam]
    /\ port = RunPort(rss_params.port)
    /\ server = "serving"
    /\ arg = NoArg
    /\ result = NoResult
    /\ config_file \in ConfigFiles
    /\ upd_pc = "start"
    /\ loaded = <<>>
    /\ pending = <<>>
    /\ set_calls = <<>>
    /\ returned = "none"
ConfigNext == UpdOpen \/ UpdValidate \/ UpdSetParameter \/ UpdFinish
ConfigSpec == ConfigInit /\ [][ConfigNext]_vars

\* ------------------------------------------------------------------ claims
Range(f) == {f[k] : k \in DOMAIN f}
InQueue(s, i) == \E k \in DOMAIN queue[s] : queue[s][k].id = i
Holding(s) == pc[s] \notin {"check", "get", "sleep"}
TimesOf(store) == {store[k].published_time : k \in DOMAIN store}

\* an add_item_to_feed has run to its end and none is under way
HandleCompleted == version > 0 /\ pc["rss"] # "limit"

\* C1: after every completed add_item_to_feed the store holds at most max_items entries,
\* whatever max_items the sink was constructed with
C1_StoreWithinMaxItems == HandleCompleted => Len(items) <= max_items

\* C2: the entry an eviction removes has the smallest published_time of the entries that
\* were in the store right before the eviction, the one just appended included
C2_EvictsOldestByTime ==
    evicted.happened =>
        \A k \in DOMAIN evicted.before :
            evicted.before[k].id = evicted.entry =>
                evicted.before[k].published_time = Min(TimesOf(evicted.before))

\* C3: once the handling of an event has raised, every event on the sink's queue is still
\* passed to the handler, for both sinks, as long as the consumer thread is scheduled
C3_RaiseDoesNotStopLoop ==
    \A s \in Sinks : \A i \in EventIds :
        (raised[s] # {} /\ InQueue(s, i)) ~> (i \in Range(passed[s]))

C3_Witness ==
    \E s \in Sinks : 1 \in raised[s] /\ passed[s] = <<1, 2>> /\ pc[s] = "check"

\* C4: each sink takes events off its queue and handles them in the order they were put on
\* it, one at a time: the handling of one event is over before the next is taken
C4_Fifo ==
    \A s \in Sinks :
        /\ \A k \in DOMAIN dequeued[s] : dequeued[s][k] = k
        /\ \A k \in DOMAIN passed[s] : passed[s][k] = k
        /\ Holding(s) => /\ Len(dequeued[s]) > 0
                         /\ cur[s].id = dequeued[s][Len(dequeued[s])]
                         /\ Len(dequeued[s]) - Len(passed[s]) \in {0, 1}
        /\ ~Holding(s) => cur[s] = NoEvent /\ passed[s] = dequeued[s]

C4_Witness ==
    \E s \in Sinks : dequeued[s] = <<1>> /\ Holding(s) /\ InQueue(s, 2)

\* C5: each event is taken off the queue once and passed to the handler once: none is
\* passed twice, and none leaves the queue without being passed to the handler
C5_ExactlyOnce ==
    \A s \in Sinks :
        /\ \A j, k \in DOMAIN passed[s] : passed[s][j] = passed[s][k] => j = k
        /\ \A j, k \in DOMAIN dequeued[s] : dequeued[s][j] = dequeued[s][k] => j = k
        /\ \A i \in Range(dequeued[s]) :
              /\ ~InQueue(s, i)
              /\ i \in Range(passed[s]) \/ (pc[s] = HandlerEntry(s) /\ cur[s].id = i)
        /\ Range(passed[s]) \subseteq Range(dequeued[s])

C5_Witness ==
    \E s \in Sinks : produced[s] = 2 /\ queue[s] = <<>> /\ Len(passed[s]) = 2 /\ ~Holding(s)

\* C6: the document of every request holds exactly the entries the store had before or
\* after one of the add_item_to_feed calls that ran during the request (never the entries
\* of a store in the middle of a call), and at most max_items of them
C6_RenderSeesWholeStore ==
    \A r \in Requests :
        (rpc[r] = "done" /\ response[r].status = 200) =>
            /\ EntryIds(response[r].entries) \in snap[r].stable
            /\ Len(response[r].entries) <= max_items

\* C7: two requests served one after the other with no change of the store in between
\* return the same entries in the same order, and each document lists its entries from the
\* most recent to the oldest
C7_RenderRepeatableNewestFirst ==
    \A r \in Requests :
        (rpc[r] = "done" /\ snap[r].alone) =>
            /\ \A j, k \in DOMAIN response[r].entries :
                  j < k => response[r].entries[j].published_time
                              >= response[r].entries[k].published_time
            /\ \A q \in Requests :
                  (rpc[q] = "done" /\ snap[q].alone /\ snap[q].version = snap[r].version)
                      => response[q] = response[r]

\* C8: an event handled while the store holds no webhook endpoint is dropped: no lookup, no
\* POST, no exception, and the handler has returned; a lookup or a POST is made only with the
\* endpoint the store held when the event was handled
C8_DropsWhenEndpointUnset ==
    /\ (read_config.id # 0 /\ Unset(read_config.value)) =>
          /\ read_config.id \notin raised["discord"]
          /\ read_config.id \notin looked_up
          /\ attempts[read_config.id] = 0
          /\ cur["discord"].id # read_config.id
    /\ pc["discord"] \in {"lookup", "post"} =>
          /\ read_config.id = cur["discord"].id
          /\ ~Unset(read_config.value)
          /\ webhook_url = read_config.value
    /\ last_post.id # 0 => ~Unset(last_post.read) /\ last_post.endpoint = last_post.read

C8_Witness ==
    /\ read_config.id = 1
    /\ Unset(read_config.value)
    /\ ~Unset(self_webhook_url)
    /\ passed["discord"] = <<1>>
    /\ pc["discord"] = "sleep"

\* C9: at most one POST is made for an event; a POST that fails is not made again and
\* raises nothing: the handler has returned and the event is gone
C9_PostOnceNoRetry ==
    /\ \A i \in EventIds : attempts[i] <= 1
    /\ last_post.id # 0 =>
          /\ last_post.id \notin raised["discord"]
          /\ cur["discord"].id # last_post.id
          /\ pc["discord"] \in {"sleep", "check", "get"} \/ cur["discord"].id > last_post.id

C9_Witness ==
    /\ last_post.id = 1
    /\ last_post.outcome \in {"network_error", "http_error"}
    /\ attempts[1] = 1
    /\ passed["discord"] = <<1, 2>>

\* C10: the embed of every POST has a title that is not empty, whatever the lookup and the
\* parser returned
C10_EmbedHasTitle ==
    /\ pc["discord"] = "post" => embed.title # Empty
    /\ last_post.id # 0 => last_post.embed.title # Empty

C10_Witness ==
    /\ last_post.id # 0
    /\ last_post.embed.title = Placeholder
    /\ last_post.embed.image = DbImageUrl

\* C11: every request to GET / is answered with status 200 and a feed document, never with
\* an error status, whatever entries the store holds (none, or entries with empty fields)
C11_GetAlwaysSucceeds ==
    \A r \in Requests : rpc[r] = "done" => response[r].status = 200

\* the fields a parser returned are the three texts the argument was built from
FieldsAsGiven(parsed) ==
    parsed.title = Strip(arg.title) /\ parsed.price = Strip(arg.price)
        /\ parsed.brand = Strip(arg.brand)

\* C12: for a line-based content with three non-empty lines that are no image line, the
\* parser of each sink returns title = line 0, price = line 1 and brand = line 2, whether
\* the lines are separated by \n or by \r\n
C12_PositionalFields ==
    arg.format = "positional" =>
        /\ "discord" \in result.done => FieldsAsGiven(result.discord)
        /\ "rss" \in result.done => FieldsAsGiven(result.rss)

\* C13: for a content in the emoji format with the three marker lines in any order, each
\* parser returns as title, price and brand the text that follows the field's marker up to
\* the end of its line, trimmed, and the two parsers return the same four fields
C13_TaggedFields ==
    arg.format = "tagged" =>
        /\ "rss" \in result.done => FieldsAsGiven(result.rss)
        /\ "discord" \in result.done => FieldsAsGiven(result.discord)
        /\ {"rss", "discord"} \subseteq result.done => result.rss = result.discord

\* the symbol documented for each code, and the code in lower case
SymbolOf ==
    [GBP |-> "POUND", EUR |-> "EUROSIGN", USD |-> "$", CAD |-> "C$", AUD |-> "A$",
     CHF |-> "CHF", PLN |-> "zl", CZK |-> "Kc", SEK |-> "kr", NOK |-> "kr", DKK |-> "kr"]
LowerOf ==
    [GBP |-> "gbp", EUR |-> "eur", USD |-> "usd", CAD |-> "cad", AUD |-> "aud",
     CHF |-> "chf", PLN |-> "pln", CZK |-> "czk", SEK |-> "sek", NOK |-> "nok", DKK |-> "dkk"]

\* the codes the text ends in, in any letter case
TrailingCodes(text) ==
    IF text = Empty THEN {}
    ELSE {c \in DOMAIN SymbolOf :
             text[Len(text)] \in {c, LowerOf[c]} \/ (c = "GBP" /\ text[Len(text)] = "Gbp")}

\* C14: format_price_with_symbol returns a value for every argument: for a text that ends
\* in one of the eleven codes, in any letter case, the symbol of the code followed by the
\* trimmed text before the code; for any other text, the empty one included, the text itself
C14_FormatPrice ==
    (arg.fn = "price" /\ "price" \in result.done) =>
        IF TrailingCodes(arg.text) # {}
        THEN result.price =
                 <<SymbolOf[CHOOSE c \in TrailingCodes(arg.text) : TRUE]>>
                     \o Strip(SubSeq(arg.text, 1, Len(arg.text) - 1))
        ELSE result.price = arg.text

C14_Witness ==
    /\ "price" \in result.done
    /\ arg.text = <<" ", "8.0", " ", "gbp">>
    /\ result.price = <<"POUND", "8.0">>

\* C15: when rss_max_items or rss_port is absent or is no number, the feed sink works with
\* the default (100 items, port 18473), and the start of the server does not fail on the value
C15_DefaultsForNonNumeric ==
    sink = "rss" =>
        /\ rss_params.max_items \in NonNumericParams => max_items = 100
        /\ (rss_params.port \in NonNumericParams /\ server # "starting") =>
              port = 18473 /\ server # "port_rejected"

C15_Witness ==
    /\ rss_params.max_items.kind = "text"
    /\ rss_params.port.kind = "text"
    /\ server = "serving"
    /\ Len(items) = 2

\* C16: a failure to bind or listen ends only the serving of HTTP requests: the consumer
\* thread of the feed sink is still running after it, and so is the one of the Discord sink
C16_ConsumerOutlivesServer ==
    server \in {"bind_failed", "port_rejected"} =>
        pc["rss"] # "exited" /\ pc["discord"] # "exited"

\* the events add_item_to_feed has handled without raising, in the order it handled them
Handled == SelectSeq(passed["rss"], LAMBDA i : i \notin raised["rss"])

\* C17: when n events have been handled without error the store holds the min(n, max_items)
\* events handled last, one entry each, in handling order; nothing is merged, so two events
\* with the same url are two entries
C17_StoreIsLastHandled ==
    (pc["rss"] # "limit" /\ Len(Handled) > 0) =>
        LET n == Len(Handled)
        IN  /\ Len(items) = IF n < max_items THEN n ELSE max_items
            /\ \A k \in 1..Len(items) : items[k].id = Handled[n - Len(items) + k]

\* the description of an embed with the given price and brand: one line each, empty ones left out
PriceAndBrand(price, brand) ==
    IF price # Empty /\ brand # Empty THEN price \o <<"LF">> \o brand ELSE price \o brand

\* C18: when the lookup found a record, the embed has the record's title (the placeholder
\* for an empty one) and image, the price format_price_with_symbol gives for
\* "<price> <currency>" of the record, a price of zero included, and the brand the parser
\* found in the content
C18_EmbedFromRecord ==
    (pc["discord"] = "post" /\ db_item.found) =>
        /\ embed.title = IF db_item.title = Empty THEN Placeholder ELSE db_item.title
        /\ embed.image = db_item.photo_url
        /\ embed.description =
              PriceAndBrand(FormatPriceWithSymbol(<<db_item.price, " ">> \o db_item.currency),
                            DiscordParseContent(cur["discord"].content).brand)

\* the first line starts with one of the three marker glyphs
StartsWithMarker(line) == line # Empty /\ line[1] \in {"NEW", "EURO", "BAG"}

\* C19: when RSSFeed.parse_content finds no Title marker line, the title is the first line
\* of the content as it is if that line starts with none of the three marker glyphs, and
\* stays empty if it starts with one of them
C19_FirstLineFallback ==
    (arg.format = "untitled" /\ "rss" \in result.done) =>
        result.rss.title = IF StartsWithMarker(arg.first) THEN Empty ELSE arg.first

C21_IdlesOnlyOnEmpty ==
    [][\A s \in Sinks :
          /\ (pc[s] # "sleep" /\ pc'[s] = "sleep") => (pc[s] = "check" /\ queue[s] = <<>>)
          /\ (pc[s] # "check" /\ pc'[s] = "check") => (pc[s] = "sleep" \/ Holding(s))]_vars

\* the entries request r took from the store to put into its document
Snapshot(r) == Slice(SortedDescending(snap[r].taken), max_items)

\* C22: with requests served at the same time, the document of each request holds one item
\* for each entry of the snapshot that request took of the store, none twice and none
\* missing, whatever the other requests do to the feed generator
C22_DocumentIsOwnSnapshot ==
    \A r \in Requests :
        rpc[r] = "done" =>
            /\ response[r].status = 200
            /\ Len(response[r].entries) = Len(Snapshot(r))
            /\ Range(response[r].entries) = Range(Snapshot(r))

\* the item id the url gives: the part after the part "items" if there is one, otherwise
\* the last part made of digits only, otherwise none
IdOfUrl(path) ==
    LET followed == {k \in 1..(Len(path) - 1) : path[k] = "items"}
        digits == {k \in 1..Len(path) : path[k] \in {"123", "45", "67"}}
    IN  IF followed # {} THEN path[Min(followed) + 1]
        ELSE IF digits # {} THEN path[Max(digits)]
        ELSE ""

\* the embed made of what the parser found in the content alone
EmbedOfContent(content, url) ==
    LET parsed == DiscordParseContent(content)
    IN  [title |-> IF parsed.title = Empty THEN Placeholder ELSE parsed.title,
         url |-> url,
         description |-> PriceAndBrand(FormatPriceWithSymbol(parsed.price), parsed.brand),
         image |-> parsed.image]

\* C23: the listing is looked up under the path part that follows "items" in the event's
\* url, or else under the last all-numeric part; with neither there is no query, and then,
\* or when the lookup raised, no record is used: the embed is made of the parsed content
\* alone and the handling raises nothing
C23_LookupKeyAndFallback ==
    pc["discord"] = "post" =>
        /\ lookup.item_id = IdOfUrl(cur["discord"].url)
        /\ lookup.item_id = "" => lookup.ended \in {"no_id", "raised"}
        /\ lookup.ended \in {"no_id", "raised"} =>
              /\ ~db_item.found
              /\ embed = EmbedOfContent(cur["discord"].content, cur["discord"].url)
              /\ cur["discord"].id \notin raised["discord"]

C23_Witness ==
    /\ pc["discord"] = "post"
    /\ cur["discord"].url = MemberUrl
    /\ lookup = [item_id |-> "67", ended |-> "raised"]
    /\ cur["discord"].content = PositionalContent


\* the files C24 is about: a missing, empty or unparseable file, or a mapping that
\* validate_config rejects: one with an unknown key, a boolean key whose value is no
\* boolean, a numeric key whose value is neither a number nor a text int() converts, or
\* a JSON key whose value is a text that is not JSON. A boolean is an int for
\* isinstance, so True for a numeric key is a number here as it is for validate_config
IsNumber(value) ==
    \/ value.type \in {"bool", "int", "float"}
    \/ value.type = "str" /\ value.text \in IntTexts
BadItem(item) ==
    \/ item.key \notin valid_keys
    \/ item.key \in boolean_keys /\ item.value.type # "bool"
    \/ item.key \in numeric_keys /\ ~IsNumber(item.value)
    \/ item.key \in json_keys /\ item.value.type = "str" /\ item.value.text \notin JsonTexts
MustReject(file) ==
    \/ file.state \in {"missing", "unparseable"}
    \/ file.state = "parsed" /\ file.doc.type = "NoneType"
    \/ /\ file.state = "parsed"
       /\ file.doc.type = "dict"
       /\ \/ \E k \in DOMAIN file.doc.items : BadItem(file.doc.items[k])
          \/ ~validate_config(file.doc.items)

\* C24: when the file is missing, empty or unparseable, or validate_config rejects it
\* (an unknown key, a non-boolean for a boolean key, a non-numeric value for a numeric
\* key, invalid JSON for a JSON key), update_config_from_file makes no set_parameter
\* call at any point of its run and returns False
C24_ValidateBeforeWrite ==
    MustReject(config_file) =>
        /\ set_calls = <<>>
        /\ upd_pc = "done" => returned = "False"

\* a file whose first key is valid and whose second is not has been turned down
C24_Witness ==
    /\ upd_pc = "done"
    /\ returned = "False"
    /\ set_calls = <<>>
    /\ config_file.state = "parsed"
    /\ config_file.doc.type = "dict"
    /\ Len(config_file.doc.items) = 2
    /\ ~BadItem(config_file.doc.items[1])
    /\ BadItem(config_file.doc.items[2])

====
